---- MODULE Spec2Model ----
(***************************************************************************)
(* Model of utils/helpers.py: the dataset path resolvers                   *)
(* (get_im_txt_pths, get_im_pths), the file copier                         *)
(* (copy_files_to_directory) and the PDF page rasterizer                   *)
(* (save_pdf_page_as_image_from_dir).  Each function is a sequential       *)
(* program; one action per statement group, the program counter of each    *)
(* function being a variable.                                              *)
(***************************************************************************)
EXTENDS Integers, Sequences, FiniteSets, TLC

(***************************************************************************)
(* Bounds of the model.                                                    *)
(***************************************************************************)
MaxFiles == 4      \* files in the dataset directory
MaxPaths == 3      \* length of file_paths given to the copier
MaxDocs  == 3      \* entries in the directory given to the rasterizer
MaxPages == 2      \* pages of a PDF document

VARIABLES
    \* ---- path resolvers
    pth_fn,          \* the resolver being called
    pth_pc,          \* its position
    dir_exists,      \* os.path.exists(dataset_dir)
    dir_files,       \* files under dataset_dir
    im_pths,         \* local im_pths
    txt_pths,        \* local txt_pths
    listed,          \* number of get_files calls made so far
    pth_exc,         \* exception the call raised, "none" if none
    \* ---- copier
    cp_pc,           \* position in copy_files_to_directory
    cp_call,         \* 1 for the first invocation, 2 for the repeated one
    file_paths,      \* argument file_paths
    fs,              \* file system: path -> content or NoFile
    dest_exists,     \* dest_dir exists as a directory
    cp_i,            \* loop index into file_paths
    cp_copied,       \* indices copied by the current invocation
    cp_out,          \* messages printed by the current invocation
    cp_exc,          \* exception of the current invocation
    fs_start,        \* file system when the current invocation started
    fs_once,         \* file system after the first invocation ended
    \* ---- rasterizer
    pdf_pc,          \* position in save_pdf_page_as_image_from_dir
    entries,         \* os.listdir(directory): sequence of entries
    page_to_render,  \* argument page_to_render
    pdf_documents,   \* local pdf_documents (indices into entries)
    pdf_i,           \* loop index into pdf_documents
    img_paths,       \* local img_paths
    open_docs,       \* documents opened and not closed
    written,         \* image paths written to disk
    fetched,         \* documents whose page was fetched (pdf[page_to_render])
    rendered,        \* documents whose page was rendered (get_pixmap)
    attempts,        \* documents on which the loop body was started, in order
    pdf_out,         \* messages printed
    pdf_exc          \* exception that left the function, "none" if none

pthVars == <<pth_fn, pth_pc, dir_exists, dir_files, im_pths, txt_pths, listed, pth_exc>>
cpVars  == <<cp_pc, cp_call, file_paths, fs, dest_exists, cp_i, cp_copied, cp_out,
             cp_exc, fs_start, fs_once>>
pdfVars == <<pdf_pc, entries, page_to_render, pdf_documents, pdf_i, img_paths,
             open_docs, written, fetched, rendered, attempts, pdf_out, pdf_exc>>
vars == <<pthVars, cpVars, pdfVars>>

(***************************************************************************)
(* Sequence helpers.                                                       *)
(***************************************************************************)
Range(s) == {s[k] : k \in 1..Len(s)}

SeqsUpTo(S, n) == UNION {[1..k -> S] : k \in 0..n}

(***************************************************************************)
(* Path resolvers                                                          *)
(*                                                                         *)
(* A file name is "<digits><ext>", kept as its digit string and its        *)
(* extension.                                                              *)
(***************************************************************************)
im_extensions == {".jpg", ".png", ".tiff"}

FileNums == {<<2>>, <<1, 0>>}
FileExts == {".jpg", ".png", ".txt", ".pdf"}
AllFiles == [num : FileNums, ext : FileExts]

RECURSIVE DigitsVal(_)
DigitsVal(d) == IF Len(d) = 0 THEN 0
                ELSE 10 * DigitsVal(SubSeq(d, 1, Len(d) - 1)) + d[Len(d)]

ExtRank(e) == CASE e = ".jpg" -> 1 [] e = ".pdf" -> 2 [] e = ".png" -> 3
                [] e = ".tiff" -> 4 [] e = ".txt" -> 5

\* plain string order of two digit strings followed by '.': a proper prefix
\* sorts first, since '.' precedes every digit
RECURSIVE LexDigitsLess(_, _)
LexDigitsLess(a, b) ==
    IF Len(a) = 0 THEN Len(b) > 0
    ELSE IF Len(b) = 0 THEN FALSE
    ELSE IF a[1] # b[1] THEN a[1] < b[1]
    ELSE LexDigitsLess(Tail(a), Tail(b))

LexLess(f, g) ==
    \/ LexDigitsLess(f.num, g.num)
    \/ f.num = g.num /\ ExtRank(f.ext) < ExtRank(g.ext)

\* natural order: the numeric chunk is compared as a number
NatLess(f, g) ==
    \/ DigitsVal(f.num) < DigitsVal(g.num)
    \/ DigitsVal(f.num) = DigitsVal(g.num) /\ ExtRank(f.ext) < ExtRank(g.ext)

\* the built-in sort: plain string order
RECURSIVE sorted(_)
sorted(S) ==
    IF S = {} THEN <<>>
    ELSE LET m == CHOOSE x \in S : \A y \in S \ {x} : LexLess(x, y)
         IN <<m>> \o sorted(S \ {m})

\* natsort.natsorted: ascending in the natural order
RECURSIVE natsorted(_)
natsorted(S) ==
    IF S = {} THEN <<>>
    ELSE LET m == CHOOSE x \in S : \A y \in S \ {x} : NatLess(x, y)
         IN <<m>> \o natsorted(S \ {m})

get_files(files, extensions) == {f \in files : f.ext \in extensions}

PthInit ==
    /\ pth_fn \in {"get_im_txt_pths", "get_im_pths"}
    /\ pth_pc = "exists"
    /\ dir_exists \in BOOLEAN
    /\ dir_files \in {S \in SUBSET AllFiles : Cardinality(S) <= MaxFiles}
    /\ (~dir_exists => dir_files = {})
    /\ im_pths = <<>>
    /\ txt_pths = <<>>
    /\ listed = 0
    /\ pth_exc = "none"

PthIdle ==
    /\ pth_fn = "none" /\ pth_pc = "idle" /\ dir_exists = FALSE /\ dir_files = {}
    /\ im_pths = <<>> /\ txt_pths = <<>> /\ listed = 0 /\ pth_exc = "none"

\* helpers.py 32-33
get_im_txt_pths_exists ==
    /\ pth_fn = "get_im_txt_pths" /\ pth_pc = "exists"
    /\ IF ~dir_exists
       THEN pth_pc' = "raised" /\ pth_exc' = "FileNotFoundError"
       ELSE pth_pc' = "list_im" /\ pth_exc' = pth_exc
    /\ UNCHANGED <<pth_fn, dir_exists, dir_files, im_pths, txt_pths, listed>>
    /\ UNCHANGED <<cpVars, pdfVars>>

\* helpers.py 36
get_im_txt_pths_list_im ==
    /\ pth_fn = "get_im_txt_pths" /\ pth_pc = "list_im"
    /\ im_pths' = natsorted(get_files(dir_files, im_extensions))
    /\ listed' = listed + 1
    /\ pth_pc' = "list_txt"
    /\ UNCHANGED <<pth_fn, dir_exists, dir_files, txt_pths, pth_exc>>
    /\ UNCHANGED <<cpVars, pdfVars>>

\* helpers.py 37
get_im_txt_pths_list_txt ==
    /\ pth_fn = "get_im_txt_pths" /\ pth_pc = "list_txt"
    /\ txt_pths' = natsorted(get_files(dir_files, {".txt"}))
    /\ listed' = listed + 1
    /\ pth_pc' = "validate"
    /\ UNCHANGED <<pth_fn, dir_exists, dir_files, im_pths, pth_exc>>
    /\ UNCHANGED <<cpVars, pdfVars>>

\* helpers.py 39-49.  The messages of the two emptiness errors name im_dir and
\* txt_dir, which are bound nowhere: building the message raises NameError.
get_im_txt_pths_validate ==
    /\ pth_fn = "get_im_txt_pths" /\ pth_pc = "validate"
    /\ IF Len(im_pths) = 0
       THEN pth_pc' = "raised" /\ pth_exc' = "NameError"
       ELSE IF Len(txt_pths) = 0
       THEN pth_pc' = "raised" /\ pth_exc' = "NameError"
       ELSE IF Len(im_pths) # Len(txt_pths)
       THEN pth_pc' = "raised" /\ pth_exc' = "ValueError"
       ELSE pth_pc' = "returned" /\ pth_exc' = pth_exc
    /\ UNCHANGED <<pth_fn, dir_exists, dir_files, im_pths, txt_pths, listed>>
    /\ UNCHANGED <<cpVars, pdfVars>>

\* a resolver that lists without checking that the directory exists
get_im_pths_unchecked ==
    /\ pth_fn = "get_im_pths" /\ pth_pc = "exists"
    /\ pth_pc' = "list_im"
    /\ UNCHANGED <<pth_fn, dir_exists, dir_files, im_pths, txt_pths, listed, pth_exc>>
    /\ UNCHANGED <<cpVars, pdfVars>>

\* helpers.py 70-71
get_im_pths_exists ==
    /\ pth_fn = "get_im_pths" /\ pth_pc = "exists"
    /\ IF ~dir_exists
       THEN pth_pc' = "raised" /\ pth_exc' = "FileNotFoundError"
       ELSE pth_pc' = "list_im" /\ pth_exc' = pth_exc
    /\ UNCHANGED <<pth_fn, dir_exists, dir_files, im_pths, txt_pths, listed>>
    /\ UNCHANGED <<cpVars, pdfVars>>

\* helpers.py 74
get_im_pths_list_im ==
    /\ pth_fn = "get_im_pths" /\ pth_pc = "list_im"
    /\ im_pths' = natsorted(get_files(dir_files, im_extensions))
    /\ listed' = listed + 1
    /\ pth_pc' = "validate"
    /\ UNCHANGED <<pth_fn, dir_exists, dir_files, txt_pths, pth_exc>>
    /\ UNCHANGED <<cpVars, pdfVars>>

\* helpers.py 76-79
get_im_pths_validate ==
    /\ pth_fn = "get_im_pths" /\ pth_pc = "validate"
    /\ IF Len(im_pths) = 0
       THEN pth_pc' = "raised" /\ pth_exc' = "ValueError"
       ELSE pth_pc' = "returned" /\ pth_exc' = pth_exc
    /\ UNCHANGED <<pth_fn, dir_exists, dir_files, im_pths, txt_pths, listed>>
    /\ UNCHANGED <<cpVars, pdfVars>>

(***************************************************************************)
(* File copier                                                             *)
(*                                                                         *)
(* A path is <<directory, basename>>; the content of a file is a sequence  *)
(* of tokens, the empty sequence standing for "no such file".              *)
(***************************************************************************)
dest_dir == "dest"

Paths == {<<"A", "f">>, <<"A", "g">>, <<"B", "f">>, <<dest_dir, "f">>, <<dest_dir, "g">>}
Names == {p[2] : p \in Paths}
DestPaths == {p \in Paths : p[1] = dest_dir}

NoFile == <<>>

\* file_path.name
basename(p) == p[2]

\* dest_dir / file_path.name
dest_file(p) == <<dest_dir, basename(p)>>

\* a copy that opens the target for appending
shutil_copy_append(f, src, dst) == [f EXCEPT ![dst] = f[dst] \o f[src]]

\* shutil.copy(src, dst) when it succeeds: dst is created or overwritten
shutil_copy(f, src, dst) == [f EXCEPT ![dst] = f[src]]

\* the exception shutil.copy(src, dst) raises, "none" if it succeeds
shutil_copy_error(f, src, dst) ==
    IF f[src] = NoFile THEN "FileNotFoundError"
    ELSE IF src = dst THEN "SameFileError"
    ELSE "none"

CpInit ==
    /\ cp_pc = "mkdir"
    /\ cp_call = 1
    /\ file_paths \in SeqsUpTo(Paths, MaxPaths)
    /\ fs \in {g \in [Paths -> {NoFile} \cup {<<p>> : p \in Paths}] :
                  \A p \in Paths : g[p] \in {NoFile, <<p>>}}
    /\ dest_exists \in BOOLEAN
    /\ ((\E p \in DestPaths : fs[p] # NoFile) => dest_exists)
    /\ cp_i = 0
    /\ cp_copied = <<>>
    /\ cp_out = <<>>
    /\ cp_exc = "none"
    /\ fs_start = fs
    /\ fs_once = fs

CpIdle ==
    /\ cp_pc = "idle" /\ cp_call = 0 /\ file_paths = <<>>
    /\ fs = [p \in Paths |-> NoFile] /\ dest_exists = FALSE /\ cp_i = 0
    /\ cp_copied = <<>> /\ cp_out = <<>> /\ cp_exc = "none"
    /\ fs_start = fs /\ fs_once = fs

\* helpers.py 92-95
copy_mkdir ==
    /\ cp_pc = "mkdir"
    /\ dest_exists' = TRUE
    /\ cp_out' = Append(cp_out, "Copying")
    /\ cp_i' = 1
    /\ cp_pc' = "loop"
    /\ UNCHANGED <<cp_call, file_paths, fs, cp_copied, cp_exc, fs_start, fs_once>>
    /\ UNCHANGED <<pthVars, pdfVars>>

\* a loop body that catches the failure and goes on with the next file
copy_step_swallow ==
    /\ cp_pc = "loop" /\ cp_i <= Len(file_paths)
    /\ LET src == file_paths[cp_i]
           dst == dest_file(src)
           err == shutil_copy_error(fs, src, dst)
       IN IF err # "none"
          THEN UNCHANGED <<fs, cp_copied>>
          ELSE fs' = shutil_copy(fs, src, dst) /\ cp_copied' = Append(cp_copied, cp_i)
    /\ cp_i' = cp_i + 1
    /\ UNCHANGED <<cp_pc, cp_call, file_paths, dest_exists, cp_out, cp_exc, fs_start, fs_once>>
    /\ UNCHANGED <<pthVars, pdfVars>>

\* helpers.py 96-98, one iteration
copy_step ==
    /\ cp_pc = "loop" /\ cp_i <= Len(file_paths)
    /\ LET src == file_paths[cp_i]
           dst == dest_file(src)
           err == shutil_copy_error(fs, src, dst)
       IN IF err # "none"
          THEN /\ cp_pc' = "raised" /\ cp_exc' = err
               /\ UNCHANGED <<fs, cp_copied, cp_i>>
          ELSE /\ fs' = shutil_copy(fs, src, dst)
               /\ cp_copied' = Append(cp_copied, cp_i)
               /\ cp_i' = cp_i + 1
               /\ UNCHANGED <<cp_pc, cp_exc>>
    /\ UNCHANGED <<cp_call, file_paths, dest_exists, cp_out, fs_start, fs_once>>
    /\ UNCHANGED <<pthVars, pdfVars>>

\* helpers.py 96 (loop exhausted), 100
copy_done ==
    /\ cp_pc = "loop" /\ cp_i > Len(file_paths)
    /\ cp_out' = Append(cp_out, "Successfully copied")
    /\ cp_pc' = "returned"
    /\ UNCHANGED <<cp_call, file_paths, fs, dest_exists, cp_i, cp_copied, cp_exc,
                   fs_start, fs_once>>
    /\ UNCHANGED <<pthVars, pdfVars>>

\* the caller invokes copy_files_to_directory again with the same arguments
copy_again ==
    /\ cp_pc \in {"returned", "raised"} /\ cp_call = 1
    /\ fs_once' = fs
    /\ fs_start' = fs
    /\ cp_call' = 2
    /\ cp_pc' = "mkdir"
    /\ cp_i' = 0
    /\ cp_copied' = <<>>
    /\ cp_out' = <<>>
    /\ cp_exc' = "none"
    /\ UNCHANGED <<file_paths, fs, dest_exists>>
    /\ UNCHANGED <<pthVars, pdfVars>>

(***************************************************************************)
(* PDF page rasterizer                                                     *)
(*                                                                         *)
(* A directory entry is a PDF or not.  A PDF has a page count and the      *)
(* statement of the loop body at which the library fails on it, if any:    *)
(* fitz.open, the rendering (get_pixmap) or pix.save.                       *)
(* Documents are named by their position in the listing.                   *)
(***************************************************************************)
Faults == {"none", "open", "render", "save"}

PdfEntries == [pdf : {TRUE}, npages : 1..MaxPages, fault : Faults]
OtherEntry == [pdf |-> FALSE, npages |-> 0, fault |-> "none"]

\* os.path.join(directory, "<stem>_page_<page_to_render>.<image_format>")
image_path(d, page) == <<d, page>>

\* [... for f in os.listdir(directory) if f.endswith('.pdf')]
RECURSIVE pdf_filter(_, _)
pdf_filter(es, k) ==
    IF k > Len(es) THEN <<>>
    ELSE (IF es[k].pdf THEN <<k>> ELSE <<>>) \o pdf_filter(es, k + 1)

PdfInit ==
    /\ pdf_pc = "list"
    /\ entries \in SeqsUpTo(PdfEntries \cup {OtherEntry}, MaxDocs)
    /\ page_to_render \in -1..(MaxPages - 1)
    /\ pdf_documents = <<>>
    /\ pdf_i = 0
    /\ img_paths = <<>>
    /\ open_docs = {}
    /\ written = {}
    /\ fetched = {}
    /\ rendered = {}
    /\ attempts = <<>>
    /\ pdf_out = <<>>
    /\ pdf_exc = "none"

PdfIdle ==
    /\ pdf_pc = "idle" /\ entries = <<>> /\ page_to_render = 0
    /\ pdf_documents = <<>> /\ pdf_i = 0 /\ img_paths = <<>> /\ open_docs = {}
    /\ written = {} /\ fetched = {} /\ rendered = {} /\ attempts = <<>>
    /\ pdf_out = <<>> /\ pdf_exc = "none"

\* the document of the current iteration
pdf_document == pdf_documents[pdf_i]

\* helpers.py 119-120
pdf_list ==
    /\ pdf_pc = "list"
    /\ pdf_documents' = pdf_filter(entries, 1)
    /\ img_paths' = <<>>
    /\ pdf_i' = 1
    /\ pdf_pc' = "loop"
    /\ UNCHANGED <<entries, page_to_render, open_docs, written, fetched, rendered,
                   attempts, pdf_out, pdf_exc>>
    /\ UNCHANGED <<pthVars, cpVars>>

\* helpers.py 121-124
pdf_open ==
    /\ pdf_pc = "loop" /\ pdf_i <= Len(pdf_documents)
    /\ attempts' = Append(attempts, pdf_document)
    /\ IF entries[pdf_document].fault = "open"
       THEN pdf_pc' = "except" /\ UNCHANGED open_docs
       ELSE pdf_pc' = "check" /\ open_docs' = open_docs \cup {pdf_document}
    /\ UNCHANGED <<entries, page_to_render, pdf_documents, pdf_i, img_paths, written,
                   fetched, rendered, pdf_out, pdf_exc>>
    /\ UNCHANGED <<pthVars, cpVars>>

\* a range check that is off by one
pdf_check_off_by_one ==
    /\ pdf_pc = "check"
    /\ IF page_to_render <= entries[pdf_document].npages
       THEN pdf_pc' = "fetch" /\ UNCHANGED pdf_out
       ELSE /\ pdf_out' = Append(pdf_out, <<"Warning", pdf_document>>)
            /\ pdf_pc' = "close"
    /\ UNCHANGED <<entries, page_to_render, pdf_documents, pdf_i, img_paths, open_docs,
                   written, fetched, rendered, attempts, pdf_exc>>
    /\ UNCHANGED <<pthVars, cpVars>>

\* helpers.py 127, 143-144
pdf_check ==
    /\ pdf_pc = "check"
    /\ IF page_to_render < entries[pdf_document].npages
       THEN pdf_pc' = "fetch" /\ UNCHANGED pdf_out
       ELSE /\ pdf_out' = Append(pdf_out, <<"Warning", pdf_document>>)
            /\ pdf_pc' = "close"
    /\ UNCHANGED <<entries, page_to_render, pdf_documents, pdf_i, img_paths, open_docs,
                   written, fetched, rendered, attempts, pdf_exc>>
    /\ UNCHANGED <<pthVars, cpVars>>

\* helpers.py 129.  The check has passed, so the index is below the page
\* count; the library resolves a negative index from the end of the document.
pdf_fetch ==
    /\ pdf_pc = "fetch"
    /\ fetched' = fetched \cup {pdf_document}
    /\ pdf_pc' = "render"
    /\ UNCHANGED <<entries, page_to_render, pdf_documents, pdf_i, img_paths, open_docs,
                   written, rendered, attempts, pdf_out, pdf_exc>>
    /\ UNCHANGED <<pthVars, cpVars>>

\* helpers.py 132-133
pdf_render ==
    /\ pdf_pc = "render"
    /\ IF entries[pdf_document].fault = "render"
       THEN pdf_pc' = "except" /\ UNCHANGED rendered
       ELSE pdf_pc' = "save" /\ rendered' = rendered \cup {pdf_document}
    /\ UNCHANGED <<entries, page_to_render, pdf_documents, pdf_i, img_paths, open_docs,
                   written, fetched, attempts, pdf_out, pdf_exc>>
    /\ UNCHANGED <<pthVars, cpVars>>

\* helpers.py 136-141: the path is appended before the image is saved
pdf_save ==
    /\ pdf_pc = "save"
    /\ img_paths' = Append(img_paths, image_path(pdf_document, page_to_render))
    /\ IF entries[pdf_document].fault = "save"
       THEN pdf_pc' = "except" /\ UNCHANGED <<written, pdf_out>>
       ELSE /\ written' = written \cup {image_path(pdf_document, page_to_render)}
            /\ pdf_out' = Append(pdf_out, <<"Saved", pdf_document>>)
            /\ pdf_pc' = "close"
    /\ UNCHANGED <<entries, page_to_render, pdf_documents, pdf_i, open_docs, fetched,
                   rendered, attempts, pdf_exc>>
    /\ UNCHANGED <<pthVars, cpVars>>

\* helpers.py 147, then the next iteration
pdf_close ==
    /\ pdf_pc = "close"
    /\ open_docs' = open_docs \ {pdf_document}
    /\ pdf_i' = pdf_i + 1
    /\ pdf_pc' = "loop"
    /\ UNCHANGED <<entries, page_to_render, pdf_documents, img_paths, written, fetched,
                   rendered, attempts, pdf_out, pdf_exc>>
    /\ UNCHANGED <<pthVars, cpVars>>

\* a handler that lets the exception leave the function
pdf_except_reraise ==
    /\ pdf_pc = "except"
    /\ pdf_exc' = "Exception"
    /\ pdf_pc' = "raised"
    /\ UNCHANGED <<entries, page_to_render, pdf_documents, pdf_i, img_paths, open_docs,
                   written, fetched, rendered, attempts, pdf_out>>
    /\ UNCHANGED <<pthVars, cpVars>>

\* helpers.py 149-150, then the next iteration
pdf_except ==
    /\ pdf_pc = "except"
    /\ pdf_out' = Append(pdf_out, <<"Error", pdf_document>>)
    /\ pdf_i' = pdf_i + 1
    /\ pdf_pc' = "loop"
    /\ UNCHANGED <<entries, page_to_render, pdf_documents, img_paths, open_docs, written,
                   fetched, rendered, attempts, pdf_exc>>
    /\ UNCHANGED <<pthVars, cpVars>>

\* helpers.py 121 (loop exhausted), 152
pdf_return ==
    /\ pdf_pc = "loop" /\ pdf_i > Len(pdf_documents)
    /\ pdf_pc' = "returned"
    /\ UNCHANGED <<entries, page_to_render, pdf_documents, pdf_i, img_paths, open_docs,
                   written, fetched, rendered, attempts, pdf_out, pdf_exc>>
    /\ UNCHANGED <<pthVars, cpVars>>

(***************************************************************************)
(* Specifications: one per function family.                                *)
(***************************************************************************)
PthNext ==
    \/ get_im_txt_pths_exists
    \/ get_im_txt_pths_list_im
    \/ get_im_txt_pths_list_txt
    \/ get_im_txt_pths_validate
    \/ get_im_pths_exists
    \/ get_im_pths_list_im
    \/ get_im_pths_validate

CpNext ==
    \/ copy_mkdir
    \/ copy_step
    \/ copy_done
    \/ copy_again

PdfNext ==
    \/ pdf_list
    \/ pdf_open
    \/ pdf_check
    \/ pdf_fetch
    \/ pdf_render
    \/ pdf_save
    \/ pdf_close
    \/ pdf_except
    \/ pdf_return

InitPths == PthInit /\ CpIdle /\ PdfIdle
InitCopy == PthIdle /\ CpInit /\ PdfIdle
InitPdf  == PthIdle /\ CpIdle /\ PdfInit

SpecPths == InitPths /\ [][PthNext]_vars
SpecCopy == InitCopy /\ [][CpNext]_vars
SpecPdf  == InitPdf /\ [][PdfNext]_vars

SpecPdfFair == SpecPdf /\ WF_vars(PdfNext)

(***************************************************************************)
(* Properties of the path resolvers                                        *)
(***************************************************************************)
Images == get_files(dir_files, im_extensions)
Annotations == get_files(dir_files, {".txt"})
PthTerminal == pth_pc \in {"returned", "raised"}

IsNatSorted(s) == \A i, j \in 1..Len(s) : i < j => NatLess(s[i], s[j])

\* C1: get_im_txt_pths on an existing directory with no image or no .txt file
\* ends by raising ValueError, and no other exception.
C1_EmptyListRaisesValueError ==
    (/\ pth_fn = "get_im_txt_pths" /\ PthTerminal /\ dir_exists
     /\ (Images = {} \/ Annotations = {}))
    => (pth_pc = "raised" /\ pth_exc = "ValueError")

\* C3: get_im_txt_pths returns only two naturally sorted lists of the same
\* length N >= 1 holding the N images and the N annotation files; when both
\* counts are non-zero and differ it raises ValueError and does not return.
C3_ReturnsSortedEqualLength ==
    pth_fn = "get_im_txt_pths" =>
      /\ pth_pc = "returned" =>
           /\ Len(im_pths) = Len(txt_pths) /\ Len(im_pths) >= 1
           /\ IsNatSorted(im_pths) /\ IsNatSorted(txt_pths)
           /\ Range(im_pths) = Images /\ Len(im_pths) = Cardinality(Images)
           /\ Range(txt_pths) = Annotations /\ Len(txt_pths) = Cardinality(Annotations)
      /\ (/\ PthTerminal /\ Images # {} /\ Annotations # {}
          /\ Cardinality(Images) # Cardinality(Annotations))
         => (pth_pc = "raised" /\ pth_exc = "ValueError")

C3_Witness ==
    /\ pth_fn = "get_im_txt_pths" /\ pth_pc = "returned"
    /\ Len(im_pths) = 2 /\ im_pths[1].num = <<2>> /\ im_pths[2].num = <<1, 0>>
    /\ txt_pths[1].num = <<2>> /\ txt_pths[2].num = <<1, 0>>

\* C4: for a non-existent directory both resolvers raise FileNotFoundError
\* and the directory is never listed, before or instead of the error.
C4_NotFoundBeforeListing ==
    (pth_fn \in {"get_im_txt_pths", "get_im_pths"} /\ ~dir_exists) =>
      /\ listed = 0
      /\ pth_pc \in {"exists", "raised"}
      /\ pth_pc = "raised" => pth_exc = "FileNotFoundError"

C4_Witness ==
    /\ pth_fn = "get_im_pths" /\ ~dir_exists
    /\ pth_pc = "raised" /\ pth_exc = "FileNotFoundError"

(***************************************************************************)
(* Properties of the file copier                                           *)
(***************************************************************************)
CpTerminal == cp_pc \in {"returned", "raised"}

\* the copy of file_paths[k] fails: the source is missing, or it lies in the
\* destination, where it is missing or is its own target
CopyFails(k) ==
    \/ fs_start[file_paths[k]] = NoFile
    \/ file_paths[k][1] = dest_dir

FailingIndexes == {k \in 1..Len(file_paths) : CopyFails(k)}
FirstFailing == CHOOSE k \in FailingIndexes : \A m \in FailingIndexes : k <= m

\* content of the destination file named n after the copies of positions 1..m
ContentAfter(n, m) ==
    LET K == {k \in 1..m : basename(file_paths[k]) = n}
    IN IF K = {} THEN fs_start[<<dest_dir, n>>]
       ELSE fs_start[file_paths[CHOOSE k \in K : \A j \in K : j <= k]]

\* C5: when the copier has run twice with the same arguments, the destination
\* holds the same file names with the same contents as after the first run.
C5_CopyIdempotent ==
    (cp_call = 2 /\ CpTerminal) =>
      /\ dest_exists
      /\ \A p \in DestPaths : fs[p] = fs_once[p]

C5_Witness ==
    /\ cp_call = 2 /\ cp_pc = "returned" /\ Len(cp_copied) >= 2
    /\ \E p \in DestPaths : fs_start[p] # NoFile /\ fs[p] # NoFile

\* C7: if the copy of the i-th file is the first to fail, the call ends by
\* raising at i, the files before i are in the destination, nothing at or
\* after i was copied, and the success message is not printed.
C7_AbortOnFirstFailure ==
    /\ "Successfully copied" \in Range(cp_out) => FailingIndexes = {}
    /\ (CpTerminal /\ FailingIndexes # {}) =>
         /\ cp_pc = "raised" /\ cp_exc # "none"
         /\ cp_i = FirstFailing
         /\ cp_copied = [k \in 1..(FirstFailing - 1) |-> k]
         /\ \A n \in Names : fs[<<dest_dir, n>>] = ContentAfter(n, FirstFailing - 1)
         /\ \A p \in Paths \ DestPaths : fs[p] = fs_start[p]

C7_Witness ==
    /\ cp_call = 1 /\ cp_pc = "raised" /\ cp_i = 2 /\ Len(file_paths) = 3
    /\ ~CopyFails(3)
    /\ basename(file_paths[3]) # basename(file_paths[1])
    /\ fs[dest_file(file_paths[1])] = fs_start[file_paths[1]]
    /\ fs[dest_file(file_paths[3])] = NoFile

(***************************************************************************)
(* Properties of the PDF page rasterizer                                   *)
(***************************************************************************)
Docs == Range(pdf_documents)
HasPage(d) == page_to_render < entries[d].npages
Count(kind, d) == Cardinality({k \in 1..Len(pdf_out) : pdf_out[k] = <<kind, d>>})

\* the loop body raises on document d
Raises(d) ==
    \/ entries[d].fault = "open"
    \/ entries[d].fault \in {"render", "save"} /\ HasPage(d)

\* C2: every path of the returned list is the path of an image whose save
\* completed, and every saved image is in the list.
C2_ReturnedPathsWereWritten ==
    pdf_pc = "returned" => Range(img_paths) = written

\* C6: when every document opens and renders without error, the call returns
\* one path per document that has the requested page, in listing order, none
\* for the others, and prints one skip warning per document without the page.
C6_OnePathPerDocumentWithPage ==
    (\A k \in 1..Len(entries) : entries[k].fault \notin {"open", "render"}) =>
      /\ pdf_pc # "raised" /\ pdf_exc = "none"
      /\ pdf_pc = "returned" =>
           /\ Range(img_paths) = {image_path(d, page_to_render) : d \in {e \in Docs : HasPage(e)}}
           /\ Len(img_paths) = Cardinality({e \in Docs : HasPage(e)})
           /\ \A i, j \in 1..Len(img_paths) : i < j => img_paths[i][1] < img_paths[j][1]
           /\ \A d \in Docs : Count("Warning", d) = (IF HasPage(d) THEN 0 ELSE 1)
           /\ \A d \in Docs : Count("Error", d) = (IF Raises(d) THEN 1 ELSE 0)

C6_Witness ==
    /\ pdf_pc = "returned" /\ Len(pdf_documents) = 3 /\ Len(img_paths) = 2
    /\ \A k \in 1..Len(entries) : entries[k].fault = "none"
    /\ \E d \in Docs : ~HasPage(d) /\ Count("Warning", d) = 1
    /\ page_to_render >= 0

\* C8: a failure on one document never stops the batch: the documents are
\* attempted once each in listing order, each exception is caught and logged
\* once, and the call ends by returning.
C8_State ==
    /\ pdf_pc # "raised" /\ pdf_exc = "none"
    /\ pdf_pc # "list" =>
         /\ Len(attempts) <= Len(pdf_documents)
         /\ attempts = SubSeq(pdf_documents, 1, Len(attempts))
    /\ pdf_pc = "returned" =>
         /\ attempts = pdf_documents
         /\ \A d \in Docs : Count("Error", d) = (IF Raises(d) THEN 1 ELSE 0)

C8_BatchAlwaysCompletes == [](C8_State) /\ <>(pdf_pc = "returned")

C8_Witness ==
    /\ pdf_pc = "returned" /\ Len(pdf_documents) = 3
    /\ entries[pdf_documents[1]].fault = "open"
    /\ Raises(pdf_documents[2]) /\ entries[pdf_documents[2]].fault = "save"
    /\ ~Raises(pdf_documents[3]) /\ image_path(pdf_documents[3], page_to_render) \in written

\* C9: every opened document is closed before the next one is opened and
\* before the function returns.
C9_OpenedDocsAreClosed ==
    pdf_pc \in {"loop", "returned"} => open_docs = {}

\* C10: a document for which the page index is out of range, at or above the
\* page count or below zero, is skipped: no page fetched or rendered, no image
\* saved, no path appended.
C10_OutOfRangeSkipped ==
    \A d \in Docs :
      (page_to_render >= entries[d].npages \/ page_to_render < 0) =>
        /\ d \notin fetched /\ d \notin rendered
        /\ image_path(d, page_to_render) \notin written
        /\ image_path(d, page_to_render) \notin Range(img_paths)

====
